---- MODULE Spec2Model ----
(***************************************************************************)
(* Model of src/main.py: the two pairing-code automation tasks             *)
(* (levanter_pairing_automation_task, raganork_pairing_automation_task),   *)
(* the recursive click guard safe_click_and_correct and the request filter *)
(* route_handler.                                                          *)
(*                                                                         *)
(* Text is modelled with TLA+ strings; Python's str operations (strip,     *)
(* startswith, in, re.match) are operators computed character by           *)
(* character.  Every awaited call of the code is one step of the model and *)
(* may either return or raise.                                             *)
(***************************************************************************)
EXTENDS Integers, Sequences, FiniteSets, TLC

VARIABLES jobs, route, decisions

vars == <<jobs, route, decisions>>

(***************************************************************************)
(* Bounds of the model.                                                    *)
(***************************************************************************)
MaxPhoneLen == 2
MaxTextLen == 4
MaxUrlLen == 3

(***************************************************************************)
(* Configuration (main.py, lines 21-29 and 50).                            *)
(***************************************************************************)
URL_LEVANTER == "https://levanter-delta.vercel.app/"

URL_RAGANORK == "https://session.raganork.site/"

AD_BLOCK_DOMAINS ==
    << "google-analytics", "doubleclick", "adservice", "googlesyndication",
       "facebook.com/tr", "hotjar", "analytics", "cloudflareinsights",
       "fonts.gstatic.com", "yandex", "popup", "ad", "redirect" >>

NON_ESSENTIAL == {"image", "font", "media", "stylesheet"}

MAX_ATTEMPTS_Two == 1 + 1

MAX_ATTEMPTS == 3

(***************************************************************************)
(* Python string operations.                                               *)
(***************************************************************************)
Char(s, i) == SubSeq(s, i, i)

Whitespace == {" ", "\t", "\n"}

Digits == {"0", "1", "2", "3", "4", "5", "6", "7", "8", "9"}

\* s.startswith(p)
StartsWith(s, p) == Len(p) <= Len(s) /\ SubSeq(s, 1, Len(p)) = p

\* sub in s
Contains(sub, s) ==
    \E i \in 1..(Len(s) - Len(sub) + 1) : SubSeq(s, i, i + Len(sub) - 1) = sub

RECURSIVE LStrip(_)
LStrip(s) ==
    IF Len(s) > 0 /\ Char(s, 1) \in Whitespace
    THEN LStrip(SubSeq(s, 2, Len(s)))
    ELSE s

RECURSIVE RStrip(_)
RStrip(s) ==
    IF Len(s) > 0 /\ Char(s, Len(s)) \in Whitespace
    THEN RStrip(SubSeq(s, 1, Len(s) - 1))
    ELSE s

StripNothing(s) == s

\* s.strip()
Strip(s) == RStrip(LStrip(s))

\* number of leading characters of s that \d matches
RECURSIVE LeadingDigits(_)
LeadingDigits(s) ==
    IF Len(s) > 0 /\ Char(s, 1) \in Digits
    THEN 1 + LeadingDigits(SubSeq(s, 2, Len(s)))
    ELSE 0

\* the match of r"^\+(\d*)(.*)$", which asks for no digit after the '+'
ReMatchNoDigitNeeded(s) ==
    IF Len(s) >= 1 /\ Char(s, 1) = "+"
    THEN LET n == LeadingDigits(SubSeq(s, 2, Len(s)))
         IN  << SubSeq(s, 2, n + 1), SubSeq(s, n + 2, Len(s)) >>
    ELSE << >>

\* re.match(r"^\+(\d+)(.*)$", s): <<>> when there is no match, otherwise
\* <<group(1), group(2)>>.  \d+ is greedy and (.*)$ accepts any rest, so
\* group(1) is the whole run of digits that follows the '+'.
ReMatch(s) ==
    IF Len(s) >= 2 /\ Char(s, 1) = "+" /\ Char(s, 2) \in Digits
    THEN LET n == LeadingDigits(SubSeq(s, 2, Len(s)))
         IN  << SubSeq(s, 2, n + 1), SubSeq(s, n + 2, Len(s)) >>
    ELSE << >>

\* all strings over alphabet of length at most n
RECURSIVE Strs(_, _)
Strs(alphabet, n) ==
    IF n = 0 THEN {""}
    ELSE LET S == Strs(alphabet, n - 1)
         IN  S \cup {s \o c : s \in S, c \in alphabet}

(***************************************************************************)
(* Inputs.                                                                 *)
(***************************************************************************)
\* context.args[0].strip(): a non-empty token without whitespace
PhoneNumbers ==
    (Strs({"+", "0", "1", "a"}, MaxPhoneLen) \ {""})
        \cup { "+15551234567", "+2348012345678", "+10", "+07", "+1a0" }

\* what the result element can hold
Texts ==
    Strs({" ", "A"}, MaxTextLen)
        \cup { "AB12CD34", " AB12CD ", "ABC", "Enter Mobile Number",
               "error", "Error", "Server Error 500", "ERROR!",
               "PAIR-0123456789012345678901234567890123456789-ABCDE" }

\* where a click can leave the page
PageUrls ==
    { "https://levanter-delta.vercel.app/#session",
      "https://ads.example.net/landing", "https://levanter-delta.vercel.app" }

ResourceTypes ==
    {"image", "font", "media", "stylesheet", "document", "script", "xhr", "fetch"}

RequestUrls ==
    Strs({"a", "d", "/"}, MaxUrlLen)
        \cup { URL_LEVANTER, URL_RAGANORK,
               "https://www.google-analytics.com/collect",
               "https://api.example.org/v1/code",
               "https://cdn.example.org/download.js",
               "https://example.org/Redirect" }

JobKinds == {"levanter", "raganork"}

(***************************************************************************)
(* route_handler (main.py, lines 33-41).                                   *)
(***************************************************************************)
NoRoute == [resource_type |-> "", url |-> ""]

is_non_essential(req) == req.resource_type \in NON_ESSENTIAL

is_ad_or_trackerFirstOnly(req) == Contains(AD_BLOCK_DOMAINS[1], req.url)

is_ad_or_tracker(req) ==
    \E k \in 1..Len(AD_BLOCK_DOMAINS) : Contains(AD_BLOCK_DOMAINS[k], req.url)

\* the browser hands a request of the page to the installed handler
NewRequest ==
    /\ route = NoRoute \/ decisions # << >>
    /\ \E t \in ResourceTypes, u \in RequestUrls :
          route' = [resource_type |-> t, url |-> u]
    /\ decisions' = << >>
    /\ UNCHANGED jobs

RouteAbort ==
    /\ route # NoRoute
    /\ decisions = << >>
    /\ is_non_essential(route) \/ is_ad_or_tracker(route)
    /\ decisions' = Append(decisions, "abort")
    /\ UNCHANGED <<jobs, route>>

RouteContinue ==
    /\ route # NoRoute
    /\ decisions = << >>
    /\ ~(is_non_essential(route) \/ is_ad_or_tracker(route))
    /\ decisions' = Append(decisions, "continue")
    /\ UNCHANGED <<jobs, route>>

InitFilter ==
    /\ jobs = << >>
    /\ route = NoRoute
    /\ decisions = << >>

NextFilter == NewRequest \/ RouteAbort \/ RouteContinue

SpecFilter == InitFilter /\ [][NextFilter]_vars

(***************************************************************************)
(* The automation tasks (main.py, lines 120-175 and 180-260).              *)
(*                                                                         *)
(* A job is one asyncio task.  Its record holds the task's locals          *)
(* (mobile_number, country_code, number_body, final_code, code_text), its  *)
(* position pc / ip, the frame of the click guard (attempt), the page and  *)
(* browser state, the exception in flight (exc), the exception that left   *)
(* the task (escaped), the calls it has issued (trace) and the messages    *)
(* Telegram has accepted (replies).                                        *)
(***************************************************************************)
Jobs == DOMAIN jobs

\* a call issued by the job; raised is set when the call raises
Ev(op, arg) == [op |-> op, arg |-> arg, raised |-> FALSE]

\* the call issued last has raised instead of returning
Failed(job) == [job EXCEPT !.trace[Len(job.trace)].raised = TRUE]

St(op, sel, line) == [op |-> op, sel |-> sel, line |-> line]

\* body of the try block of levanter_pairing_automation_task, lines 131-157
LevanterSteps ==
    << St("goto", URL_LEVANTER, 131),
       St("safe_click", "text=\"Session\"", 135),
       St("wait_for_selector", "button:has-text(\"Get Pairing Code\")", 139),
       St("safe_click", "button:has-text(\"Get Pairing Code\")", 140),
       St("wait_for_selector", "input[placeholder*=\"+1234567890\"]", 144),
       St("fill", "input[placeholder*=\"+1234567890\"]", 145),
       St("click", "button:has-text(\"Generate Pairing Code\")", 149),
       St("wait_for_selector", "input[placeholder*=\"+1234567890\"]", 152),
       St("wait_for_selector", "h2", 155),
       St("inner_text", "h2", 157) >>

\* body of the try block of raganork_pairing_automation_task, lines 202-242
RaganorkSteps(country_code) ==
    << St("goto", URL_RAGANORK, 202),
       St("click", "button:has-text(\"Enter code\")", 207),
       St("wait_for_selector", "div.country-code-select", 212),
       St("click", "div.country-code-select", 213),
       St("wait_for_selector", "text=\"" \o country_code \o "\"", 219),
       St("click", "text=\"" \o country_code \o "\"", 222),
       St("wait_for_selector", "input[placeholder=\"Enter phone number\"]", 227),
       St("fill", "input[placeholder=\"Enter phone number\"]", 228),
       St("click", "button:has-text(\"GET CODE\")", 233),
       St("wait_for_selector", "input[readonly]", 239),
       St("get_attribute", "input[readonly]", 242) >>

Steps(job) ==
    IF job.kind = "levanter" THEN LevanterSteps
    ELSE RaganorkSteps(job.country_code)

CurStep(job) == Steps(job)[job.ip]

\* the value page.fill types: mobile_number (line 145), number_body (line 228)
FillValue(job) ==
    IF job.kind = "levanter" THEN job.mobile_number ELSE job.number_body

NewJob(kind, number) ==
    [ kind |-> kind, mobile_number |-> number,
      pc |-> "start", ip |-> 0,
      country_code |-> "", number_body |-> "",
      playwright |-> "none", browser |-> "none", page |-> FALSE,
      filter |-> FALSE, url |-> "about:blank", back_url |-> "about:blank",
      attempt |-> 0, gstart |-> 0, guard_result |-> "none",
      final_code |-> << >>, code_text |-> "",
      exc |-> "none", escaped |-> "none",
      trace |-> << >>, replies |-> << >> ]

Set(j, rec) == jobs' = [jobs EXCEPT ![j] = rec]

Idle == UNCHANGED <<route, decisions>>

\* an exception raised inside the try block reaches the except clause
Raise(job, name) == [job EXCEPT !.exc = name, !.pc = "except"]

\* an exception raised outside any try block leaves through the
\* async with block of line 125 / 196
Escape(job, name) == [job EXCEPT !.exc = name, !.pc = "exit_playwright"]

(***************************************************************************)
(* Entry of the tasks.                                                     *)
(***************************************************************************)
\* line 123: the Levanter task goes straight to the browser
LevanterStart(j) ==
    /\ jobs[j].pc = "start" /\ jobs[j].kind = "levanter"
    /\ Set(j, [jobs[j] EXCEPT !.pc = "launch"])
    /\ Idle

\* lines 185-194: split the number, or go and report the bad format
RaganorkParse(j) ==
    /\ jobs[j].pc = "start" /\ jobs[j].kind = "raganork"
    /\ LET match == ReMatch(jobs[j].mobile_number)
           body  == IF match = << >> THEN "" ELSE match[2]
       IN  IF match = << >>
           THEN Set(j, [jobs[j] EXCEPT !.pc = "reply_invalid"])
           ELSE Set(j, [jobs[j] EXCEPT
                    !.country_code = "+" \o match[1],
                    !.number_body  = IF StartsWith(body, "0")
                                     THEN SubSeq(body, 2, Len(body))
                                     ELSE body,
                    !.pc = "launch"])
    /\ Idle

\* lines 187-188: reply_text, then return
RaganorkReplyInvalid(j) ==
    /\ jobs[j].pc = "reply_invalid"
    /\ LET job == [jobs[j] EXCEPT !.trace = Append(@, Ev("reply_text", "invalid"))]
       IN  \/ Set(j, [job EXCEPT
                    !.replies = Append(@, [kind |-> "invalid", body |-> "Invalid mobile number format."]),
                    !.pc = "done"])
           \/ Set(j, [Failed(job) EXCEPT !.escaped = "TelegramError", !.pc = "done"])
    /\ Idle

(***************************************************************************)
(* Browser set-up, lines 125-128 and 196-199 (outside the try block).      *)
(***************************************************************************)
Launch(j) ==
    /\ jobs[j].pc = "launch"
    /\ LET job == [jobs[j] EXCEPT !.playwright = "started",
                                  !.trace = Append(@, Ev("launch", ""))]
       IN  \/ Set(j, [job EXCEPT !.browser = "open", !.pc = "new_page"])
           \/ Set(j, Escape(Failed(job), "PlaywrightError"))
    /\ Idle

NewPage(j) ==
    /\ jobs[j].pc = "new_page"
    /\ LET job == [jobs[j] EXCEPT !.trace = Append(@, Ev("new_page", ""))]
       IN  \/ Set(j, [job EXCEPT !.page = TRUE, !.pc = "route"])
           \/ Set(j, Escape(Failed(job), "PlaywrightError"))
    /\ Idle

\* line 128 with a failure of page.route that is ignored
InstallRouteIgnoresFailure(j) ==
    /\ jobs[j].pc = "route"
    /\ LET job == [jobs[j] EXCEPT !.trace = Append(@, Ev("route", "**/*"))]
       IN  \/ Set(j, [job EXCEPT !.filter = TRUE, !.ip = 1, !.pc = "steps"])
           \/ Set(j, [Failed(job) EXCEPT !.ip = 1, !.pc = "steps"])
    /\ Idle

InstallRoute(j) ==
    /\ jobs[j].pc = "route"
    /\ LET job == [jobs[j] EXCEPT !.trace = Append(@, Ev("route", "**/*"))]
       IN  \/ Set(j, [job EXCEPT !.filter = TRUE, !.ip = 1, !.pc = "steps"])
           \/ Set(j, Escape(Failed(job), "PlaywrightError"))
    /\ Idle


(***************************************************************************)
(* The steps of the try block.                                             *)
(***************************************************************************)
\* the page calls with a failure that is swallowed: the next step runs
PageOpContinuesOnError(j) ==
    /\ jobs[j].pc = "steps"
    /\ CurStep(jobs[j]).op \in {"goto", "click", "wait_for_selector", "fill"}
    /\ LET step == CurStep(jobs[j])
           arg  == IF step.op = "fill" THEN FillValue(jobs[j]) ELSE step.sel
           job  == [jobs[j] EXCEPT !.trace = Append(@, Ev(step.op, arg))]
       IN  \/ Set(j, [job EXCEPT
                    !.url = IF step.op = "goto" THEN step.sel ELSE @,
                    !.ip = @ + 1])
           \/ Set(j, [Failed(job) EXCEPT !.ip = @ + 1])
    /\ Idle

\* page.goto / page.click / page.wait_for_selector / page.fill
PageOp(j) ==
    /\ jobs[j].pc = "steps"
    /\ CurStep(jobs[j]).op \in {"goto", "click", "wait_for_selector", "fill"}
    /\ LET step == CurStep(jobs[j])
           arg  == IF step.op = "fill" THEN FillValue(jobs[j]) ELSE step.sel
           job  == [jobs[j] EXCEPT !.trace = Append(@, Ev(step.op, arg))]
       IN  \/ Set(j, [job EXCEPT
                    !.url = IF step.op = "goto" THEN step.sel ELSE @,
                    !.ip = @ + 1])
           \/ Set(j, Raise(Failed(job), "PlaywrightError"))
    /\ Idle

\* the call with an attempt counter shared by all invocations of the job
SafeClickCallKeepsAttempt(j) ==
    /\ jobs[j].pc = "steps"
    /\ CurStep(jobs[j]).op = "safe_click"
    /\ Set(j, [jobs[j] EXCEPT !.attempt = IF @ = 0 THEN 1 ELSE @,
                              !.gstart = Len(jobs[j].trace),
                              !.guard_result = "running",
                              !.pc = "guard_enter"])
    /\ Idle

\* lines 135 and 140: call safe_click_and_correct with the default attempt=1
SafeClickCall(j) ==
    /\ jobs[j].pc = "steps"
    /\ CurStep(jobs[j]).op = "safe_click"
    /\ Set(j, [jobs[j] EXCEPT !.attempt = 1,
                              !.gstart = Len(jobs[j].trace),
                              !.guard_result = "running",
                              !.pc = "guard_enter"])
    /\ Idle

\* lines 157 and 242: read the result element
Extract(j) ==
    /\ jobs[j].pc = "steps"
    /\ CurStep(jobs[j]).op \in {"inner_text", "get_attribute"}
    /\ LET step == CurStep(jobs[j])
           job  == [jobs[j] EXCEPT !.trace = Append(@, Ev(step.op, step.sel))]
       IN  \/ \E t \in Texts :
                 Set(j, [job EXCEPT !.final_code = <<t>>, !.pc = "validate"])
           \/ /\ step.op = "get_attribute"       \* attribute absent: None
              /\ Set(j, [job EXCEPT !.final_code = << >>, !.pc = "validate"])
           \/ Set(j, Raise(Failed(job), "PlaywrightError"))
    /\ Idle

(***************************************************************************)
(* safe_click_and_correct (main.py, lines 45-78).  The recursion of line   *)
(* 73 is a tail call inside a try whose except clause re-raises, so one    *)
(* frame with the attempt counter models the whole call chain.             *)
(***************************************************************************)
\* lines 50-54
GuardEnter(j) ==
    /\ jobs[j].pc = "guard_enter"
    /\ IF jobs[j].attempt > MAX_ATTEMPTS
       THEN Set(j, Raise([jobs[j] EXCEPT !.guard_result = "redirect_loop"],
                         "TimeoutError"))
       ELSE Set(j, [jobs[j] EXCEPT !.pc = "guard_click"])
    /\ Idle

\* lines 58-69 with the arguments of startswith exchanged
GuardClickSwappedPrefix(j) ==
    /\ jobs[j].pc = "guard_click"
    /\ LET step == CurStep(jobs[j])
           job  == [jobs[j] EXCEPT !.trace = Append(@, Ev("click", step.sel))]
       IN  \/ \E u \in PageUrls :
                 IF StartsWith(URL_LEVANTER, u)
                 THEN Set(j, [job EXCEPT !.url = u,
                                         !.guard_result = "success",
                                         !.ip = @ + 1,
                                         !.pc = "steps"])
                 ELSE Set(j, [job EXCEPT !.url = u,
                                         !.back_url = job.url,
                                         !.pc = "guard_back"])
           \/ Set(j, Raise([Failed(job) EXCEPT !.guard_result = "raised"],
                           "PlaywrightError"))
    /\ Idle

\* lines 58-78 with an except clause that retries instead of re-raising
GuardClickRetriesOnError(j) ==
    /\ jobs[j].pc = "guard_click"
    /\ LET step == CurStep(jobs[j])
           job  == [jobs[j] EXCEPT !.trace = Append(@, Ev("click", step.sel))]
       IN  \/ \E u \in PageUrls :
                 IF StartsWith(u, URL_LEVANTER)
                 THEN Set(j, [job EXCEPT !.url = u,
                                         !.guard_result = "success",
                                         !.ip = @ + 1,
                                         !.pc = "steps"])
                 ELSE Set(j, [job EXCEPT !.url = u,
                                         !.back_url = job.url,
                                         !.pc = "guard_back"])
           \/ Set(j, [Failed(job) EXCEPT !.attempt = @ + 1,
                                         !.pc = "guard_enter"])
    /\ Idle

\* lines 58-69: click, settle, compare page.url with target_page_url
GuardClick(j) ==
    /\ jobs[j].pc = "guard_click"
    /\ LET step == CurStep(jobs[j])
           job  == [jobs[j] EXCEPT !.trace = Append(@, Ev("click", step.sel))]
       IN  \/ \E u \in PageUrls :
                 IF StartsWith(u, URL_LEVANTER)
                 THEN Set(j, [job EXCEPT !.url = u,
                                         !.guard_result = "success",
                                         !.ip = @ + 1,
                                         !.pc = "steps"])
                 ELSE Set(j, [job EXCEPT !.url = u,
                                         !.back_url = job.url,
                                         !.pc = "guard_back"])
           \/ Set(j, Raise([Failed(job) EXCEPT !.guard_result = "raised"],
                           "PlaywrightError"))
    /\ Idle

\* lines 70-73 with the recursive call passing attempt unchanged
GuardGoBackSameAttempt(j) ==
    /\ jobs[j].pc = "guard_back"
    /\ LET job == [jobs[j] EXCEPT !.trace = Append(@, Ev("go_back", ""))]
       IN  \/ Set(j, [job EXCEPT !.url = job.back_url,
                                 !.pc = "guard_enter"])
           \/ Set(j, Raise([Failed(job) EXCEPT !.guard_result = "raised"],
                           "PlaywrightError"))
    /\ Idle

\* lines 70-73: go back, then call again with attempt + 1
GuardGoBack(j) ==
    /\ jobs[j].pc = "guard_back"
    /\ LET job == [jobs[j] EXCEPT !.trace = Append(@, Ev("go_back", ""))]
       IN  \/ Set(j, [job EXCEPT !.url = job.back_url,
                                 !.attempt = @ + 1,
                                 !.pc = "guard_enter"])
           \/ Set(j, Raise([Failed(job) EXCEPT !.guard_result = "raised"],
                           "PlaywrightError"))
    /\ Idle

(***************************************************************************)
(* Result validation and reporting.                                        *)
(***************************************************************************)
\* line 160
LevanterRejects(code_text) ==
    Len(code_text) < 4 \/ Contains("Error", code_text)

\* line 245
RaganorkRejects(code_text) == Len(code_text) < 4

Rejects(kind, code_text) ==
    IF kind = "levanter" THEN LevanterRejects(code_text)
    ELSE RaganorkRejects(code_text)

\* lines 158-161 and 243-246
Validate(j) ==
    /\ jobs[j].pc = "validate"
    /\ IF jobs[j].final_code = << >>
       THEN Set(j, Raise(jobs[j], "AttributeError"))
       ELSE LET code_text == Strip(jobs[j].final_code[1])
                job == [jobs[j] EXCEPT !.code_text = code_text]
            IN  IF Rejects(job.kind, code_text)
                THEN Set(j, Raise(job, "ValueError"))
                ELSE Set(j, [job EXCEPT !.pc = "reply_html"])
    /\ Idle

\* lines 163-165 and 248-250
ReplyHtml(j) ==
    /\ jobs[j].pc = "reply_html"
    /\ LET job == [jobs[j] EXCEPT
                     !.trace = Append(@, Ev("reply_html", jobs[j].code_text))]
       IN  \/ Set(j, [job EXCEPT
                    !.replies = Append(@, [kind |-> "success", body |-> job.code_text]),
                    !.pc = "finally"])
           \/ Set(j, Raise(Failed(job), "TelegramError"))
    /\ Idle

\* an except clause that only logs
ExceptHandlerOnlyLogs(j) ==
    /\ jobs[j].pc = "except"
    /\ Set(j, [jobs[j] EXCEPT !.exc = "none", !.pc = "finally"])
    /\ Idle

\* lines 167-171 and 252-256: report type(e).__name__
ExceptHandler(j) ==
    /\ jobs[j].pc = "except"
    /\ LET job == [jobs[j] EXCEPT
                     !.trace = Append(@, Ev("reply_text", jobs[j].exc))]
       IN  \/ Set(j, [job EXCEPT
                    !.replies = Append(@, [kind |-> "failure", body |-> job.exc]),
                    !.exc = "none",
                    !.pc = "finally"])
           \/ Set(j, [Failed(job) EXCEPT !.exc = "TelegramError", !.pc = "finally"])
    /\ Idle

FinallySkipsClose(j) ==
    /\ jobs[j].pc = "finally"
    /\ Set(j, [jobs[j] EXCEPT !.pc = "exit_playwright"])
    /\ Idle

\* lines 173-175 and 258-260
Finally(j) ==
    /\ jobs[j].pc = "finally"
    /\ LET job == [jobs[j] EXCEPT !.trace = Append(@, Ev("close", "")),
                                  !.pc = "exit_playwright"]
       IN  \/ Set(j, [job EXCEPT !.browser = "closed"])
           \/ \E b \in {"open", "closed"} :
                 Set(j, [Failed(job) EXCEPT !.browser = b, !.exc = "PlaywrightError"])
    /\ Idle

\* end of the async with block of line 125 / 196: the Playwright driver is
\* stopped and an exception still in flight leaves the task
ExitPlaywright(j) ==
    /\ jobs[j].pc = "exit_playwright"
    /\ Set(j, [jobs[j] EXCEPT !.playwright = "stopped",
                              !.escaped = jobs[j].exc,
                              !.exc = "none",
                              !.pc = "done"])
    /\ Idle

(***************************************************************************)
(* One job, created by pair_levanter_command / pair_raganork_command.      *)
(***************************************************************************)
Init ==
    /\ \E kind \in JobKinds, number \in PhoneNumbers :
          jobs = [j \in {1} |-> NewJob(kind, number)]
    /\ route = NoRoute
    /\ decisions = << >>

Next ==
    \/ \E j \in Jobs : LevanterStart(j)
    \/ \E j \in Jobs : RaganorkParse(j)
    \/ \E j \in Jobs : RaganorkReplyInvalid(j)
    \/ \E j \in Jobs : Launch(j)
    \/ \E j \in Jobs : NewPage(j)
    \/ \E j \in Jobs : InstallRoute(j)
    \/ \E j \in Jobs : PageOp(j)
    \/ \E j \in Jobs : SafeClickCall(j)
    \/ \E j \in Jobs : Extract(j)
    \/ \E j \in Jobs : GuardEnter(j)
    \/ \E j \in Jobs : GuardClick(j)
    \/ \E j \in Jobs : GuardGoBack(j)
    \/ \E j \in Jobs : Validate(j)
    \/ \E j \in Jobs : ReplyHtml(j)
    \/ \E j \in Jobs : ExceptHandler(j)
    \/ \E j \in Jobs : Finally(j)
    \/ \E j \in Jobs : ExitPlaywright(j)

Spec == Init /\ [][Next]_vars

(***************************************************************************)
(* Two jobs running concurrently: asyncio.create_task (line 113) starts    *)
(* one task per command, and the tasks interleave at their awaits.         *)
(***************************************************************************)
ConcurrentNumbers == {"+10", "a"}

\* two /pairrag commands
InitConcurrent ==
    /\ \E n1 \in ConcurrentNumbers, n2 \in ConcurrentNumbers :
          jobs = [j \in {1, 2} |->
                    NewJob("raganork", IF j = 1 THEN n1 ELSE n2)]
    /\ route = NoRoute
    /\ decisions = << >>

\* the steps of Raganork tasks
NextRaganork ==
    \/ \E j \in Jobs : RaganorkParse(j)
    \/ \E j \in Jobs : RaganorkReplyInvalid(j)
    \/ \E j \in Jobs : Launch(j)
    \/ \E j \in Jobs : NewPage(j)
    \/ \E j \in Jobs : InstallRoute(j)
    \/ \E j \in Jobs : PageOp(j)
    \/ \E j \in Jobs : Extract(j)
    \/ \E j \in Jobs : Validate(j)
    \/ \E j \in Jobs : ReplyHtml(j)
    \/ \E j \in Jobs : ExceptHandler(j)
    \/ \E j \in Jobs : Finally(j)
    \/ \E j \in Jobs : ExitPlaywright(j)

SpecConcurrent == InitConcurrent /\ [][NextRaganork]_vars

(***************************************************************************)
(* Properties.                                                             *)
(***************************************************************************)
\* indices of the calls of the given kinds in a trace
Calls(tr, ops) == {i \in 1..Len(tr) : tr[i].op \in ops}

\* the calls issued since the current guard invocation was entered
GuardCalls(job, op) ==
    {i \in (job.gstart + 1)..Len(job.trace) : job.trace[i].op = op}

PageOps ==
    {"goto", "click", "go_back", "wait_for_selector", "fill", "inner_text",
     "get_attribute"}

Terminated(job) == job.pc = "done"

\* the job entered its try block: launch, new_page and route all returned
EnteredSteps(job) == job.filter

\* some call or check of the try block raised: the except clause has run
StepRaised(job) ==
    \/ \E i \in Calls(job.trace, PageOps \cup {"reply_html"}) : job.trace[i].raised
    \/ job.guard_result = "redirect_loop"
    \/ \E i \in Calls(job.trace, {"reply_text"}) :
          job.trace[i].arg \in {"ValueError", "AttributeError"}

\* C1: a job that has launched its browser and entered its step sequence
\* calls browser.close() exactly once by the time it terminates, whichever
\* step raised, and never calls it twice.
C1_CloseExactlyOnce ==
    \A j \in Jobs :
        LET job == jobs[j]
            closes == Cardinality(Calls(job.trace, {"close"}))
        IN  /\ closes <= 1
            /\ (Terminated(job) /\ EnteredSteps(job)) => closes = 1

C1_Witness ==
    \E j \in Jobs :
        /\ Terminated(jobs[j]) /\ EnteredSteps(jobs[j]) /\ StepRaised(jobs[j])
        /\ \E i \in Calls(jobs[j].trace, {"wait_for_selector"}) : jobs[j].trace[i].raised
        /\ Cardinality(Calls(jobs[j].trace, {"close"})) = 1

GuardJustReturned(job) ==
    /\ job.pc = "steps"
    /\ job.ip > 1
    /\ Steps(job)[job.ip - 1].op = "safe_click"

MatchesPlusDigits(s) ==
    /\ Len(s) >= 2
    /\ Char(s, 1) = "+"
    /\ \A i \in 2..Len(s) : Char(s, i) \in Digits

\* C4: a job whose number does not match ^\+\d+$ never launches a browser
\* and ends with exactly the invalid-input reply.
C4_InvalidInputNoBrowser ==
    \A j \in Jobs :
        LET job == jobs[j]
        IN  ~MatchesPlusDigits(job.mobile_number) =>
              /\ Calls(job.trace, {"launch"}) = {}
              /\ Terminated(job) =>
                    (Len(job.replies) = 1 /\ job.replies[1].kind = "invalid")

\* the n characters of raw after the first i are raw without its leading
\* and trailing whitespace
IsTrimAt(raw, i, n) ==
    /\ i + n <= Len(raw)
    /\ \A k \in 1..i : Char(raw, k) \in Whitespace
    /\ \A k \in (i + n + 1)..Len(raw) : Char(raw, k) \in Whitespace
    /\ n > 0 => /\ Char(raw, i + 1) \notin Whitespace
                /\ Char(raw, i + n) \notin Whitespace

\* t is raw without its leading and trailing whitespace
IsTrimOf(raw, t) ==
    \E i \in 0..Len(raw) :
        /\ i + Len(t) <= Len(raw)
        /\ IsTrimAt(raw, i, Len(t))
        /\ t = SubSeq(raw, i + 1, i + Len(t))

\* the forbidden substrings each task checks for
ProfileForbidden(kind) == IF kind = "levanter" THEN {"Error"} ELSE {}

AcceptableCode(kind, t) ==
    /\ Len(t) >= 4
    /\ \A f \in ProfileForbidden(kind) : ~Contains(f, t)

\* the result element was read and held a string
Extracted(job) == job.final_code # << >>

ContainsErrorAnyCase(t) ==
    \E i \in 1..(Len(t) - 4) :
        /\ Char(t, i) \in {"e", "E"}
        /\ Char(t, i + 1) \in {"r", "R"}
        /\ Char(t, i + 2) \in {"r", "R"}
        /\ Char(t, i + 3) \in {"o", "O"}
        /\ Char(t, i + 4) \in {"r", "R"}

\* C6: a result text that is the echoed prompt "Enter Mobile Number" or
\* holds the word "error" in any letter case never leads to a success reply.
C6_PlaceholderRejected ==
    \A j \in Jobs :
        LET job == jobs[j]
        IN  ( /\ Extracted(job)
              /\ \/ job.final_code[1] = "Enter Mobile Number"
                 \/ ContainsErrorAnyCase(job.final_code[1]) )
            => Calls(job.trace, {"reply_html"}) = {}

\* the block rule of the resource filter
ShouldBlock(req) ==
    \/ req.resource_type \in {"image", "font", "media", "stylesheet"}
    \/ \E k \in 1..Len(AD_BLOCK_DOMAINS) : Contains(AD_BLOCK_DOMAINS[k], req.url)

\* C7: the filter issues one decision per request, never a second one, and
\* the decision is abort exactly when the resource category is image, font,
\* media or stylesheet or the URL holds a deny-list substring.
C7_FilterDecision ==
    /\ Len(decisions) <= 1
    /\ (route # NoRoute /\ decisions = << >>) => ENABLED (RouteAbort \/ RouteContinue)
    /\ decisions # << >> =>
          /\ decisions[1] \in {"abort", "continue"}
          /\ decisions[1] = "abort" <=> ShouldBlock(route)
          /\ route.resource_type = "image" => decisions[1] = "abort"

C7_Witness ==
    /\ route.resource_type = "xhr"
    /\ route.url = "https://cdn.example.org/download.js"
    /\ decisions = << "abort" >>

\* the selectors handed to safe_click_and_correct
GuardedSelectors ==
    {LevanterSteps[k].sel : k \in {n \in 1..Len(LevanterSteps) : LevanterSteps[n].op = "safe_click"}}

IsGuardCall(ev) ==
    \/ ev.op = "go_back"
    \/ ev.op = "click" /\ ev.arg \in GuardedSelectors

\* C8: once a click or a go-back of the guard has raised, the job issues no
\* further click and no further go-back, and the guard has ended in failure.
C8_GuardExceptionPropagates ==
    \A j \in Jobs :
        LET job == jobs[j]
        IN  \A i \in 1..Len(job.trace) :
                (IsGuardCall(job.trace[i]) /\ job.trace[i].raised) =>
                    /\ \A k \in (i + 1)..Len(job.trace) :
                          job.trace[k].op \notin {"click", "go_back"}
                    /\ job.pc \in {"except", "finally", "exit_playwright", "done"}
                    /\ job.guard_result = "raised"

C8_Witness ==
    \E j \in Jobs :
        /\ Terminated(jobs[j])
        /\ jobs[j].guard_result = "raised"
        /\ \E i \in Calls(jobs[j].trace, {"click"}) :
              /\ jobs[j].trace[i].raised
              /\ i > jobs[j].gstart + 2

\* C9: a job that launched a browser has called browser.close() by the time
\* it terminates, whatever the exit path.
C9_BrowserClosedOnEveryExit ==
    \A j \in Jobs :
        LET job == jobs[j]
        IN  (Terminated(job) /\ job.browser # "none") =>
                Calls(job.trace, {"close"}) # {}

\* C10: a terminated job has delivered exactly one result and no exception
\* has left the task; this covers a failing browser launch.  Jobs whose
\* reply call itself was refused by Telegram are left aside.
C10_OneTerminalResult ==
    \A j \in Jobs :
        LET job == jobs[j]
            sends == Calls(job.trace, {"reply_html", "reply_text"})
        IN  (Terminated(job) /\ \A i \in sends : ~job.trace[i].raised)
                => (Len(job.replies) = 1 /\ job.escaped = "none")

\* a '+'-and-digits number that has a non-zero digit after its first digit,
\* so that a country code and a non-empty national number exist
HasNationalNumber(s) ==
    /\ MatchesPlusDigits(s)
    /\ \E i \in 3..Len(s) : Char(s, i) # "0"

\* body is the national number of s: the digits left after some country
\* code, without their leading zeros
IsNationalNumberOf(s, body) ==
    /\ body # ""
    /\ Char(body, 1) # "0"
    /\ \E n \in 2..(Len(s) - 1) :
          LET rest == SubSeq(s, n + 1, Len(s))
          IN  \E z \in 0..(Len(rest) - 1) :
                 /\ \A k \in 1..z : Char(rest, k) = "0"
                 /\ body = SubSeq(rest, z + 1, Len(rest))

\* C11: a Raganork job given '+' and digits holds, once the number is
\* parsed, a non-empty national number without leading zeros that is the
\* remainder of the digits after the country code, and page.fill types
\* exactly that value; "+15551234567" gives "5551234567".
C11_NationalNumberFilled ==
    \A j \in Jobs :
        LET job == jobs[j]
        IN  ( /\ job.kind = "raganork"
              /\ HasNationalNumber(job.mobile_number)
              /\ job.pc \notin {"start"} )
            => /\ IsNationalNumberOf(job.mobile_number, job.number_body)
               /\ job.mobile_number = "+15551234567" => job.number_body = "5551234567"
               /\ \A i \in Calls(job.trace, {"fill"}) :
                     job.trace[i].arg = job.number_body

\* the job has reported a failure of its try block
FailureReports(job) ==
    {i \in Calls(job.trace, {"reply_text"}) : job.trace[i].arg # "invalid"}

\* C12: whenever a job reports a failure that happened while its browser was
\* open, a screenshot call was issued before the report and before the
\* browser is closed.
C12_ScreenshotOnFailure ==
    \A j \in Jobs :
        LET job == jobs[j]
        IN  \A i \in FailureReports(job) :
                \E k \in 1..(i - 1) :
                    /\ job.trace[k].op = "screenshot"
                    /\ \A c \in Calls(job.trace, {"close"}) : k < c

\* C13: a result whose trimmed length exceeds 50 characters never leads to
\* a success reply.
C13_TooLongRejected ==
    \A j \in Jobs :
        LET job == jobs[j]
        IN  ( /\ Extracted(job)
              /\ \E i \in 0..Len(job.final_code[1]), n \in 51..Len(job.final_code[1]) :
                    IsTrimAt(job.final_code[1], i, n) )
            => Calls(job.trace, {"reply_html"}) = {}

\* the page calls of a trace, in the order issued
PageCalls(tr) == SelectSeq(tr, LAMBDA e : e.op \in PageOps)

\* the page calls evs are what the steps from the k-th on issue, in order:
\* one call per step, and for a guarded click the click, possibly repeated
\* after a go-back
RECURSIVE FollowsSteps(_, _, _, _)
FollowsSteps(evs, steps, k, fillValue) ==
    IF evs = << >> THEN TRUE
    ELSE IF k > Len(steps) THEN FALSE
    ELSE LET e  == Head(evs)
             st == steps[k]
         IN  IF st.op = "safe_click"
             THEN /\ e.op = "click"
                  /\ e.arg = st.sel
                  /\ IF Len(evs) >= 2 /\ evs[2].op = "go_back"
                     THEN FollowsSteps(Tail(Tail(evs)), steps, k, fillValue)
                     ELSE FollowsSteps(Tail(evs), steps, k + 1, fillValue)
             ELSE /\ e.op = st.op
                  /\ e.arg = (IF st.op = "fill" THEN fillValue ELSE st.sel)
                  /\ FollowsSteps(Tail(evs), steps, k + 1, fillValue)

\* the operations of the calls issued after the i-th
OpsAfter(tr, i) == [k \in 1..(Len(tr) - i) |-> tr[i + k].op]

IsPrefix(p, q) == Len(p) <= Len(q) /\ SubSeq(q, 1, Len(p)) = p

\* C14: the page calls of a job follow the listed order of its steps; once
\* a call of the sequence has raised, the job issues nothing but the failure
\* report and then the close of the browser.
C14_OrderedAndAbortOnFailure ==
    \A j \in Jobs :
        LET job == jobs[j]
        IN  /\ job.pc # "start" =>
                 FollowsSteps(PageCalls(job.trace), Steps(job), 1, FillValue(job))
            /\ \A i \in Calls(job.trace, PageOps) :
                  job.trace[i].raised =>
                      IsPrefix(OpsAfter(job.trace, i), << "reply_text", "close" >>)
            /\ \A i \in FailureReports(job) :
                  IsPrefix(OpsAfter(job.trace, i), << "close" >>)

C14_Witness ==
    \E j \in Jobs :
        /\ Terminated(jobs[j])
        /\ \E i \in Calls(jobs[j].trace, {"fill"}) :
              /\ jobs[j].trace[i].raised
              /\ OpsAfter(jobs[j].trace, i) = << "reply_text", "close" >>

InGuard(job) == job.pc \in {"guard_enter", "guard_click", "guard_back"}

C16_ConcurrentJobsIsolated ==
    /\ \A j \in Jobs :
          LET job == jobs[j]
          IN  /\ Cardinality(Calls(job.trace, {"launch"})) <= 1
              /\ Cardinality(Calls(job.trace, {"close"})) <= 1
              /\ job.pc # "start" =>
                    FollowsSteps(PageCalls(job.trace), Steps(job), 1, FillValue(job))
    /\ (\A j \in Jobs : Terminated(jobs[j])) =>
          \A j \in Jobs :
              jobs[j].browser # "none" => Calls(jobs[j].trace, {"close"}) # {}

\* a step of one job leaves the record of every other job as it was
JobsDoNotInterfere ==
    [][\A j \in Jobs : jobs'[j] # jobs[j] =>
            \A k \in Jobs \ {j} : jobs'[k] = jobs[k]]_vars

\* the number of guard steps an invocation can still take at most
GuardRank(job) ==
    3 * (4 - job.attempt)
      + (CASE job.pc = "guard_enter" -> 2
           [] job.pc = "guard_click" -> 1
           [] OTHER -> 0)

\* the calls since gstart are those of the latest guard invocation: it is
\* running, has just returned, or has failed (no page call follows a failure)
GuardWindow(job) ==
    \/ InGuard(job)
    \/ GuardJustReturned(job)
    \/ job.guard_result \in {"redirect_loop", "raised"}

\* C17: an invocation of the guard never issues more than 3 clicks or more
\* than 3 go-backs, and every step it takes while it goes on lowers a rank
\* that cannot drop below zero, so it ends, in success or in failure, after
\* finitely many steps whatever the clicks do.
C17_GuardTerminates ==
    /\ [](\A j \in Jobs :
            /\ GuardWindow(jobs[j]) =>
                  /\ Cardinality(GuardCalls(jobs[j], "click")) <= 3
                  /\ Cardinality(GuardCalls(jobs[j], "go_back")) <= 3
            /\ InGuard(jobs[j]) => GuardRank(jobs[j]) >= 0)
    /\ [][\A j \in Jobs :
            (InGuard(jobs[j]) /\ InGuard(jobs'[j]))
                => GuardRank(jobs'[j]) < GuardRank(jobs[j])]_vars

\* an invocation that used all its clicks and go-backs and has ended
C17_Witness ==
    \E j \in Jobs :
        /\ ~InGuard(jobs[j])
        /\ jobs[j].guard_result = "redirect_loop"
        /\ Cardinality(GuardCalls(jobs[j], "click")) = 3
        /\ Cardinality(GuardCalls(jobs[j], "go_back")) = 3
        /\ Terminated(jobs[j])

\* C18: every navigation of a job is issued after page.route has returned:
\* no goto happens on a page without the filter.
C18_FilterBeforeNavigation ==
    \A j \in Jobs :
        LET job == jobs[j]
        IN  \A i \in Calls(job.trace, {"goto"}) :
                /\ job.filter
                /\ \E k \in 1..(i - 1) :
                      /\ job.trace[k].op = "route"
                      /\ ~job.trace[k].raised

C18_Witness ==
    \E j \in Jobs :
        /\ jobs[j].filter
        /\ Len(jobs[j].trace) = 4
        /\ jobs[j].trace[3].op = "route"
        /\ jobs[j].trace[4].op = "goto"

\* C19: the close of the browser is the last call a job issues: no page
\* call follows it, and a success or failure report was issued before it.
C19_CloseIsLast ==
    \A j \in Jobs :
        LET job == jobs[j]
        IN  \A i \in Calls(job.trace, {"close"}) :
                /\ i = Len(job.trace)
                /\ \E k \in 1..(i - 1) : job.trace[k].op \in {"reply_html", "reply_text"}

C19_Witness ==
    \E j \in Jobs :
        /\ Terminated(jobs[j])
        /\ Len(jobs[j].trace) >= 2
        /\ jobs[j].trace[Len(jobs[j].trace)].op = "close"
        /\ jobs[j].trace[Len(jobs[j].trace) - 1].op = "reply_html"

\* s begins with '+' followed by at least one digit
BeginsPlusDigit(s) ==
    /\ Len(s) >= 2
    /\ Char(s, 1) = "+"
    /\ Char(s, 2) \in Digits

\* C20: a Raganork job whose number does not begin with '+' and a digit
\* issues the invalid-format reply and nothing else: no browser launch, no
\* page call, no other reply; when it has terminated the reply was issued
\* exactly once.
C20_RaganorkInvalidFormat ==
    \A j \in Jobs :
        LET job == jobs[j]
        IN  (job.kind = "raganork" /\ ~BeginsPlusDigit(job.mobile_number)) =>
              /\ job.browser = "none"
              /\ job.playwright = "none"
              /\ Len(job.trace) <= 1
              /\ \A i \in 1..Len(job.trace) :
                    job.trace[i].op = "reply_text" /\ job.trace[i].arg = "invalid"
              /\ \A i \in 1..Len(job.replies) : job.replies[i].kind = "invalid"
              /\ Len(job.replies) <= 1
              /\ Terminated(job) => Len(job.trace) = 1

C20_Witness ==
    \E j \in Jobs :
        /\ jobs[j].kind = "raganork"
        /\ jobs[j].mobile_number = "+a"
        /\ Terminated(jobs[j])
        /\ jobs[j].replies = << [kind |-> "invalid", body |-> "Invalid mobile number format."] >>

====
